---- MODULE Spec2Model ----
(***************************************************************************)
(* counts2counts.py (tbrown91/cgat): the spike-in run of main() and the    *)
(* collaborators of CGAT.Counts it drives.  main() is modelled from        *)
(* src/scripts/counts2counts.py; the functions of CGAT.Counts are not part *)
(* of the source tree at hand and are modelled from spec.md sections 4.1   *)
(* to 4.7.                                                                 *)
(*                                                                         *)
(* Numbers: the bin options are floats in the program; the model uses      *)
(* integers for the configured edges and exact rationals / base-2          *)
(* logarithms of rationals for the classified values (see GE).             *)
(***************************************************************************)
EXTENDS Integers, Sequences, FiniteSets, TLC

VARIABLES
    argv,            \* the options as given on the command line (never written)
    stdin,           \* the input stream: its rows and how many were read
    options,         \* the live options object, which main() updates
    counts,          \* the counts table read from stdin
    counts_sort,     \* the table handed to the shufflers and the writer
    groups,          \* group ids returned by mapGroups
    initial_bins,    \* np.arange(min_ibin, max_ibin, width_ibin)
    change_bins,     \* np.arange(min_cbin, max_cbin, width_cbin)
    clusters_dict,   \* clusters returned by findClusters
    output_indices,  \* accumulator: BinKey -> sequence of accepted candidates
    candidate,       \* the candidate drawn last (ephemeral)
    iteration,       \* shuffling iteration under way (1-based)
    cursor,          \* next row / cluster of the iteration
    filled_bins,     \* result of thresholdBins
    written,         \* what outputSpikes / to_csv wrote
    calls,           \* the calls made so far, in order
    error,           \* the exception that ended the run, "" if none
    probe,           \* SpecBins: the value classified last and its bin index
    call,            \* CSV.getConvertedTable: the arguments as passed
    table,           \* CSV.getConvertedTable: the rows, converted in place
    new_table,       \* CSV.getConvertedTable: the table returned, if any
    pc               \* position in main() / in the call

csvvars == << call, table, new_table >>

vars == << argv, stdin, options, counts, counts_sort, groups, initial_bins,
           change_bins, clusters_dict, output_indices, candidate, iteration,
           cursor, filled_bins, written, calls, error, probe, call, table,
           new_table, pc >>

-----------------------------------------------------------------------------
(* Bounds of the model.                                                    *)

MaxSpike == 2        \* max_spike and min_spike range over 0..MaxSpike
MaxIterations == 2   \* iterations ranges over 1..MaxIterations
MaxRows == 3         \* SpecTable: tables of 1..MaxRows rows
MaxPos == 2          \* SpecTable: positions 0..MaxPos
MaxDistance == 1     \* SpecTable: cluster_max_distance in 0..MaxDistance
MaxClusterSize == 3  \* SpecTable: cluster_min_size in 1..MaxClusterSize
MaxEdge == 4         \* SpecBins: bin minimum / maximum in 0..MaxEdge
MaxWidth == 3        \* SpecBins: bin width in 1..MaxWidth
MaxCsvRows == 2      \* SpecCSV: tables of 0..MaxCsvRows rows

Min(a, b) == IF a <= b THEN a ELSE b
Max(a, b) == IF a >= b THEN a ELSE b

RECURSIVE Pow2(_)
Pow2(n) == IF n <= 0 THEN 1 ELSE 2 * Pow2(n - 1)

RECURSIVE SumSeq(_)
SumSeq(s) == IF s = << >> THEN 0 ELSE Head(s) + SumSeq(Tail(s))

SeqRange(s) == { s[i] : i \in DOMAIN s }

-----------------------------------------------------------------------------
(* Values handed to the classifier.  A value is either the rational        *)
(* num/den or log2(num/den), den > 0 (and num > 0 for a logarithm), so     *)
(* that a comparison with an integer edge is exact.                        *)

Rat(n, d) == [kind |-> "rat", num |-> n, den |-> d]
Log2(n, d) == [kind |-> "log2", num |-> n, den |-> d]

\* value >= edge
GE(v, e) ==
    IF v.kind = "rat" THEN v.num >= e * v.den
    ELSE IF e >= 0 THEN v.num >= Pow2(e) * v.den
    ELSE v.num * Pow2(-e) >= v.den

\* value < edge
LT(v, e) == ~GE(v, e)

-----------------------------------------------------------------------------
(* np.arange(start, stop, step): start, start+step, ... short of stop.     *)
(* A zero step raises; the caller checks ArangeRaises first.               *)

ArangeRaises(start, stop, step) == step = 0

ArangeLen(start, stop, step) ==
    IF step > 0
    THEN IF stop <= start THEN 0
         ELSE ((stop - start) + step - 1) \div step
    ELSE IF step < 0
    THEN IF stop >= start THEN 0
         ELSE ((start - stop) + (-step) - 1) \div (-step)
    ELSE 0

Arange(start, stop, step) ==
    [k \in 1..ArangeLen(start, stop, step) |-> start + (k - 1) * step]

-----------------------------------------------------------------------------
(* BinSpace.classify (spec.md 4.1 and 3, Bin): the 0-based index of the    *)
(* bin whose interval holds the value; a value below the first low edge    *)
(* goes to bin 0, a value at or above the last low edge to the last bin.   *)
(* bins is the sequence of low edges.                                      *)

Classify(value, bins) ==
    Max(0, Cardinality({ k \in DOMAIN bins : GE(value, bins[k]) }) - 1)

-----------------------------------------------------------------------------
(* Tables.  A row carries its index label (id), the position columns and   *)
(* the values of the tracks of the two groups.                             *)

Row(i, c, p, a, b) ==
    [id |-> i, contig |-> c, position |-> p, g1 |-> a, g2 |-> b]

Data(r) == << r.contig, r.position, r.g1, r.g2 >>

Index(t) == [k \in DOMAIN t |-> t[k].id]

RowById(t, i) == t[CHOOSE k \in DOMAIN t : t[k].id = i]

\* (contig, position) of r sorts strictly before that of q
Before(r, q) ==
    \/ r.contig < q.contig
    \/ r.contig = q.contig /\ r.position < q.position

IsSorted(t) == \A k \in 1..(Len(t) - 1) : ~Before(t[k + 1], t[k])

\* insert r behind the rows that do not sort after it (stable)
RECURSIVE InsertRow(_, _)
InsertRow(t, r) ==
    IF t = << >> THEN << r >>
    ELSE IF Before(r, Head(t)) THEN << r >> \o t
    ELSE << Head(t) >> \o InsertRow(Tail(t), r)

\* counts.sort(columns=["contig", "position"]): rows keep their labels
RECURSIVE SortRows(_)
SortRows(t) ==
    IF t = << >> THEN << >>
    ELSE InsertRow(SortRows(SubSeq(t, 1, Len(t) - 1)), t[Len(t)])

\* counts_sort.set_index(counts.index, inplace=True): the k-th row of the
\* sorted table takes the k-th label of the input table
SetIndex(t, index) == [k \in DOMAIN t |-> [t[k] EXCEPT !.id = index[k]]]

SortCounts(t) == SetIndex(SortRows(t), Index(t))

-----------------------------------------------------------------------------
(* Counts.findClusters (spec.md 4.3): scan the sorted table; a row joins   *)
(* the current run unless the contig changes or the gap exceeds the        *)
(* maximum distance; a closed run is emitted if it has at least            *)
(* min_size rows.  A cluster is the sequence of its rows' index labels.    *)

Adjacent(r, q, max_distance) ==
    /\ r.contig = q.contig
    /\ q.position - r.position <= max_distance

Emit(out, run, min_size) ==
    IF Len(run) >= min_size /\ run # << >> THEN Append(out, run) ELSE out

RECURSIVE ScanClusters(_, _, _, _, _, _)
ScanClusters(t, k, run, out, max_distance, min_size) ==
    IF k > Len(t) THEN Emit(out, run, min_size)
    ELSE IF run = << >> \/ Adjacent(t[k - 1], t[k], max_distance)
    THEN ScanClusters(t, k + 1, Append(run, t[k].id), out,
                      max_distance, min_size)
    ELSE ScanClusters(t, k + 1, << t[k].id >>, Emit(out, run, min_size),
                      max_distance, min_size)

FindClusters(t, max_distance, min_size) ==
    ScanClusters(t, 1, << >>, << >>, max_distance, min_size)

-----------------------------------------------------------------------------
(* Candidates (spec.md 4.4, 4.5).  A candidate is drawn from the rows      *)
(* named by a sequence of index labels: in row mode one row, in cluster    *)
(* mode a contiguous subcluster.                                           *)

RECURSIVE GroupSum(_, _, _)
GroupSum(t, ids, g) ==
    IF ids = << >> THEN 0
    ELSE (IF g = 1 THEN SumSeq(RowById(t, Head(ids)).g1)
                   ELSE SumSeq(RowById(t, Head(ids)).g2))
         + GroupSum(t, Tail(ids), g)

RECURSIVE GroupCount(_, _, _)
GroupCount(t, ids, g) ==
    IF ids = << >> THEN 0
    ELSE (IF g = 1 THEN Len(RowById(t, Head(ids)).g1)
                   ELSE Len(RowById(t, Head(ids)).g2))
         + GroupCount(t, Tail(ids), g)

\* the mean of group 1 over the rows
InitialValue(t, ids) == Rat(GroupSum(t, ids, 1), GroupCount(t, ids, 1))

\* logfold needs strictly positive means; relative is always defined
Classifiable(t, ids, difference) ==
    difference = "logfold" =>
        GroupSum(t, ids, 1) > 0 /\ GroupSum(t, ids, 2) > 0

\* relative: mean2 - mean1; logfold: log2(mean2 / mean1)
ChangeValue(t, ids, difference) ==
    LET s1 == GroupSum(t, ids, 1)
        n1 == GroupCount(t, ids, 1)
        s2 == GroupSum(t, ids, 2)
        n2 == GroupCount(t, ids, 2)
    IN  IF difference = "relative"
        THEN Rat(s2 * n1 - s1 * n2, n1 * n2)
        ELSE Log2(s2 * n1, s1 * n2)

\* index of the subcluster-size bin: sizes min_sbin, min_sbin + width, ...
SizeBin(size, s_min, s_width) == (size - s_min) \div s_width

RowKey(t, ids, i_bins, c_bins, difference) ==
    << Classify(InitialValue(t, ids), i_bins),
       Classify(ChangeValue(t, ids, difference), c_bins) >>

ClusterKey(t, ids, size, i_bins, c_bins, difference, s_min, s_width) ==
    << Classify(InitialValue(t, ids), i_bins),
       Classify(ChangeValue(t, ids, difference), c_bins),
       SizeBin(size, s_min, s_width) >>

\* the rows of a subcluster of the given size at a start offset; a size
\* beyond the end of the cluster takes the rows there are
Subcluster(cluster, start, size) ==
    SubSeq(cluster, start + 1, Min(start + size, Len(cluster)))

\* the start offsets at which a subcluster of the size fits (offset 0 when
\* it does not fit at all)
StartOffsets(cluster, size) == 0..Max(0, Len(cluster) - size)

NoCandidate ==
    [ids |-> << >>, key |-> << >>, size |-> 0, accepted |-> FALSE]

-----------------------------------------------------------------------------
(* BinAccumulator / Thresholder (spec.md 4.6).                             *)

Count(acc, key) == IF key \in DOMAIN acc THEN Len(acc[key]) ELSE 0

HasRoom(acc, key, s_max) == Count(acc, key) < s_max

Accept(acc, key, ids, s_max) ==
    IF HasRoom(acc, key, s_max)
    THEN [k \in DOMAIN acc \cup {key} |->
            IF k = key
            THEN (IF key \in DOMAIN acc THEN acc[key] ELSE << >>) \o << ids >>
            ELSE acc[k]]
    ELSE acc

ThresholdBins(acc, s_min) ==
    [k \in { q \in DOMAIN acc : Len(acc[q]) >= s_min } |-> acc[k]]

EmptyMap == [k \in {} |-> << >>]

-----------------------------------------------------------------------------
(* main(): the decisions it takes and the arguments it passes on.          *)
(* An option that is None is the empty sequence, an option that is set     *)
(* the sequence of its value(s).                                           *)

\* "not x" of Python: None and the integer 0 are falsy
Not(x) == x = << >> \/ x = << 0 >>

\* "not x" for an optional list of names: None is falsy
NotGiven(x) == x = << >>

DesignMissing(o) == o.input_filename_design = << >>

\* a string option that was set (None and "" are false)
Given(x) == x # << >>

\* lines 374-377
RequiresDesign(o) ==
    /\ o.method \in {"filter", "spike"}
    /\ o.input_filename_design = << >>

\* sys.stdin and options.stdin are one stream: the rows not yet read,
\* the stream once read to its end, and a read that finds nothing to parse
Unread(s) == SubSeq(s.rows, s.at + 1, Len(s.rows))

Drain(s) == [s EXCEPT !.at = Len(s.rows)]

ReadRaises(s) == s.at >= Len(s.rows)

\* lines 379-399: the call that reads the table
Reader(o) ==
    IF o.input_filename_design # << >>
    THEN IF Given(o.keep_suffix) THEN "read_csv" ELSE "loadTagDataPandas"
    ELSE "read_table"

\* lines 463-470
GroupMapper(o) ==
    IF Given(o.keep_suffix) THEN "mapGroupsWithSuffix" ELSE "mapGroups"

\* faulty variant: the minimum subcluster size is compared instead of the maximum
SubclusterTooLargeMin(o) == o.min_sbin > o.cluster_min_size

SubclusterTooLarge(o) == o.max_sbin > o.cluster_min_size

\* faulty variant: the spike type is not looked at, the id column guessed instead
AppendRejectedNever(o) == FALSE

AppendRejected(o) ==
    /\ NotGiven(o.id_column)
    /\ o.output_method = "append"
    /\ o.spike_type = "row"

GuessIdColumn(o) ==
    IF NotGiven(o.id_column) /\ o.output_method # "append"
    THEN << "spike" >> ELSE o.id_column

DefaultMinSpike(o) ==
    IF Not(o.min_spike) THEN << o.max_spike >> ELSE o.min_spike

\* faulty variant: the maximum is made an edge of its own
InitialBinsOfInclusive(o) ==
    Arange(o.min_ibin, o.max_ibin + o.width_ibin, o.width_ibin)

InitialBinsOf(o) == Arange(o.min_ibin, o.max_ibin, o.width_ibin)

ChangeBinsOf(o) == Arange(o.min_cbin, o.max_cbin, o.width_cbin)

\* faulty variant: the two thresholds are passed in each other's place
ClustersOfSwapped(t, o) ==
    FindClusters(t, o.cluster_min_size, o.cluster_max_distance)

ClustersOf(t, o) ==
    FindClusters(t, o.cluster_max_distance, o.cluster_min_size)

\* faulty variant: the emptiness check is lost
NoClustersIgnored(c) == FALSE

NoClusters(c) == Len(c) = 0

\* faulty variant: iterations is passed in the place of max_spike
SpikeMaxArgSwapped(o) == o.iterations

SpikeMaxArg(o) == o.max_spike

\* faulty variant: max_spike is passed where the iterations belong
IterationsArgSwapped(o) == o.max_spike

IterationsArg(o) == o.iterations

MinSpikeArg(o) == o.min_spike[1]

\* faulty variant: the assertion on the number of filled bins is lost
NoBinsQualifiedIgnored(fb) == FALSE

NoBinsQualified(fb) == ~(Cardinality(DOMAIN fb) > 0)

\* counts.to_csv / normed.to_csv: a table without spikes
TableWritten(what) ==
    [what |-> what, method |-> "", id_column |-> << >>, bins |-> EmptyMap,
     table |-> counts]

Raise(e) ==
    /\ error' = e
    /\ pc' = "error"

-----------------------------------------------------------------------------
(* The steps of main().                                                    *)

\* lines 359-399: the assertion on the design file, the read made for a
\* keep suffix, the check of the method, and the read of the table
Load ==
    /\ pc = "start"
    /\ IF DesignMissing(options)
       THEN /\ Raise("AssertionError: design file")
            /\ UNCHANGED << stdin, counts, calls >>
       ELSE LET s1 == IF Given(options.keep_suffix)
                      THEN Drain(stdin) ELSE stdin
                c1 == IF Given(options.keep_suffix)
                      THEN Unread(stdin) ELSE counts
                k1 == IF Given(options.keep_suffix)
                      THEN Append(calls, "read_csv") ELSE calls
            IN  IF RequiresDesign(options)
                THEN /\ Raise("ValueError: method requires a design file")
                     /\ counts' = c1
                     /\ stdin' = s1
                     /\ calls' = k1
                ELSE IF ReadRaises(s1)
                THEN /\ Raise("ValueError: No columns to parse from file")
                     /\ counts' = c1
                     /\ stdin' = s1
                     /\ calls' = Append(k1, Reader(options))
                ELSE /\ counts' = Unread(s1)
                     /\ stdin' = Drain(s1)
                     /\ calls' = Append(k1, Reader(options))
                     /\ pc' = "loaded"
                     /\ error' = error
    /\ UNCHANGED << argv, options, counts_sort, groups, initial_bins,
                    change_bins, clusters_dict, output_indices, candidate,
                    iteration, cursor, filled_bins, written, probe,
                    csvvars >>

\* lines 401-418: filterTagDataPandas is outside the model; it may leave
\* no observations or no samples, and then nothing is written
Filter ==
    /\ pc = "loaded"
    /\ options.method = "filter"
    /\ \E outcome \in {"no observations", "no samples", "filtered"} :
         /\ written' = IF outcome = "filtered"
                       THEN Append(written, TableWritten("filtered"))
                       ELSE written
         /\ pc' = IF outcome = "filtered" THEN "written" ELSE "returned"
    /\ calls' = Append(calls, "filterTagDataPandas")
    /\ UNCHANGED << argv, stdin, options, counts, counts_sort, groups,
                    initial_bins, change_bins, clusters_dict, output_indices,
                    candidate, iteration, cursor, filled_bins, error, probe,
                    csvvars >>

\* lines 420-427
Normalize ==
    /\ pc = "loaded"
    /\ options.method = "normalize"
    /\ written' = Append(written, TableWritten("normalized"))
    /\ calls' = Append(calls, "normalizeTagData")
    /\ pc' = "written"
    /\ UNCHANGED << argv, stdin, options, counts, counts_sort, groups,
                    initial_bins, change_bins, clusters_dict, output_indices,
                    candidate, iteration, cursor, filled_bins, error, probe,
                    csvvars >>

\* lines 432-444: cluster mode checks the subcluster size and sorts
CheckSpikeType ==
    /\ pc = "loaded"
    /\ options.method = "spike"
    /\ IF options.spike_type = "cluster"
       THEN IF SubclusterTooLarge(options)
            THEN /\ Raise("AssertionError: max size of subcluster")
                 /\ UNCHANGED << counts_sort, calls >>
            ELSE /\ counts_sort' = SortCounts(counts)
                 /\ calls' = Append(calls, "sort")
                 /\ pc' = "checked"
                 /\ error' = error
       ELSE /\ pc' = "checked"
            /\ UNCHANGED << counts_sort, calls, error >>
    /\ UNCHANGED << argv, stdin, options, counts, groups, initial_bins,
                    change_bins, clusters_dict, output_indices, candidate,
                    iteration, cursor, filled_bins, written, probe,
                    csvvars >>

\* lines 446-452
CheckIdColumn ==
    /\ pc = "checked"
    /\ IF AppendRejected(options)
       THEN /\ Raise("AssertionError: id column must be specified")
            /\ UNCHANGED options
       ELSE /\ options' = [options EXCEPT !.id_column = GuessIdColumn(options)]
            /\ pc' = "idset"
            /\ error' = error
    /\ UNCHANGED << argv, stdin, counts, counts_sort, groups, initial_bins,
                    change_bins, clusters_dict, output_indices, candidate,
                    iteration, cursor, filled_bins, written, calls, probe,
                    csvvars >>

\* lines 454-456
SetMinSpike ==
    /\ pc = "idset"
    /\ options' = [options EXCEPT !.min_spike = DefaultMinSpike(options)]
    /\ pc' = "minset"
    /\ UNCHANGED << argv, stdin, counts, counts_sort, groups, initial_bins,
                    change_bins, clusters_dict, output_indices, candidate,
                    iteration, cursor, filled_bins, written, calls, error,
                    probe,
                    csvvars >>

\* lines 458-470: the design of the model always holds two groups
MapGroups ==
    /\ pc = "minset"
    /\ groups' = << 1, 2 >>
    /\ calls' = Append(calls, GroupMapper(options))
    /\ pc' = "mapped"
    /\ UNCHANGED << argv, stdin, options, counts, counts_sort, initial_bins,
                    change_bins, clusters_dict, output_indices, candidate,
                    iteration, cursor, filled_bins, written, error, probe,
                    csvvars >>

\* lines 472-479
BuildBins ==
    /\ pc = "mapped"
    /\ IF \/ ArangeRaises(options.min_cbin, options.max_cbin,
                          options.width_cbin)
          \/ ArangeRaises(options.min_ibin, options.max_ibin,
                          options.width_ibin)
       THEN /\ Raise("ZeroDivisionError")
            /\ UNCHANGED << initial_bins, change_bins, calls >>
       ELSE /\ change_bins' = ChangeBinsOf(options)
            /\ initial_bins' = InitialBinsOf(options)
            /\ calls' = Append(calls, "arange")
            /\ pc' = "binned"
            /\ error' = error
    /\ UNCHANGED << argv, stdin, options, counts, counts_sort, groups,
                    clusters_dict, output_indices, candidate, iteration,
                    cursor, filled_bins, written, probe,
                    csvvars >>

\* lines 482-491, cluster mode: find the clusters, fail if there are none
FindClustersStep ==
    /\ pc = "binned"
    /\ options.spike_type = "cluster"
    /\ clusters_dict' = ClustersOf(counts_sort, options)
    /\ IF NoClusters(clusters_dict')
       THEN /\ Raise("Exception: no clusters were found")
            /\ calls' = Append(calls, "findClusters")
            /\ UNCHANGED << iteration, cursor >>
       ELSE /\ calls' = calls \o << "findClusters", "shuffleCluster" >>
            /\ iteration' = 1
            /\ cursor' = 1
            /\ pc' = "shuffling"
            /\ error' = error
    /\ UNCHANGED << argv, stdin, options, counts, counts_sort, groups,
                    initial_bins, change_bins, output_indices, candidate,
                    filled_bins, written, probe,
                    csvvars >>

\* lines 497-503, row mode: the table itself is shuffled
StartShuffleRows ==
    /\ pc = "binned"
    /\ options.spike_type = "row"
    /\ counts_sort' = counts
    /\ calls' = Append(calls, "shuffleRows")
    /\ iteration' = 1
    /\ cursor' = 1
    /\ pc' = "shuffling"
    /\ UNCHANGED << argv, stdin, options, counts, groups, initial_bins,
                    change_bins, clusters_dict, output_indices, candidate,
                    filled_bins, written, error, probe,
                    csvvars >>

\* the loop of a shuffler over n rows / clusters and the iterations
Advance(n) ==
    IF cursor < n
    THEN /\ cursor' = cursor + 1
         /\ UNCHANGED << iteration, pc >>
    ELSE IF iteration < IterationsArg(options)
    THEN /\ cursor' = 1
         /\ iteration' = iteration + 1
         /\ pc' = pc
    ELSE /\ pc' = "shuffled"
         /\ UNCHANGED << cursor, iteration >>

\* Counts.shuffleRows (spec.md 4.4, 4.6): one row of one iteration
ShuffleRowStep ==
    /\ pc = "shuffling"
    /\ options.spike_type = "row"
    /\ LET ids == << counts_sort[cursor].id >>
           key == RowKey(counts_sort, ids, initial_bins, change_bins,
                         options.difference)
       IN  IF Classifiable(counts_sort, ids, options.difference)
           THEN /\ candidate' =
                      [ids |-> ids, key |-> key, size |-> 1,
                       accepted |-> HasRoom(output_indices, key,
                                            SpikeMaxArg(options))]
                /\ output_indices' =
                      Accept(output_indices, key, ids, SpikeMaxArg(options))
           ELSE /\ candidate' = NoCandidate
                /\ UNCHANGED output_indices
    /\ Advance(Len(counts_sort))
    /\ UNCHANGED << argv, stdin, options, counts, counts_sort, groups,
                    initial_bins, change_bins, clusters_dict, filled_bins,
                    written, calls, error, probe,
                    csvvars >>

\* Counts.shuffleCluster (spec.md 4.5, 4.6): one cluster of one iteration;
\* the subcluster's size and start offset are drawn at random
ShuffleClusterStep ==
    /\ pc = "shuffling"
    /\ options.spike_type = "cluster"
    /\ \E size \in options.min_sbin..options.max_sbin :
         \E start \in StartOffsets(clusters_dict[cursor], size) :
           LET ids == Subcluster(clusters_dict[cursor], start, size)
               key == ClusterKey(counts_sort, ids, size, initial_bins,
                                 change_bins, options.difference,
                                 options.min_sbin, options.width_sbin)
           IN  IF Classifiable(counts_sort, ids, options.difference)
               THEN /\ candidate' =
                          [ids |-> ids, key |-> key, size |-> size,
                           accepted |-> HasRoom(output_indices, key,
                                                SpikeMaxArg(options))]
                    /\ output_indices' =
                          Accept(output_indices, key, ids,
                                 SpikeMaxArg(options))
               ELSE /\ candidate' = [NoCandidate EXCEPT !.size = size]
                    /\ UNCHANGED output_indices
    /\ Advance(Len(clusters_dict))
    /\ UNCHANGED << argv, stdin, options, counts, counts_sort, groups,
                    initial_bins, change_bins, clusters_dict, filled_bins,
                    written, calls, error, probe,
                    csvvars >>

\* lines 505-508
Threshold ==
    /\ pc = "shuffled"
    /\ filled_bins' = ThresholdBins(output_indices, MinSpikeArg(options))
    /\ calls' = Append(calls, "thresholdBins")
    /\ IF NoBinsQualified(filled_bins')
       THEN Raise("AssertionError: No bins contained enough spike-ins")
       ELSE /\ pc' = "thresholded"
            /\ error' = error
    /\ UNCHANGED << argv, stdin, options, counts, counts_sort, groups,
                    initial_bins, change_bins, clusters_dict, output_indices,
                    candidate, iteration, cursor, written, probe,
                    csvvars >>

\* lines 511-517
Output ==
    /\ pc = "thresholded"
    /\ written' = Append(written,
                         [what |-> "spikes",
                          method |-> options.output_method,
                          id_column |-> options.id_column,
                          bins |-> filled_bins,
                          table |-> counts_sort])
    /\ calls' = Append(calls, "outputSpikes")
    /\ pc' = "written"
    /\ UNCHANGED << argv, stdin, options, counts, counts_sort, groups,
                    initial_bins, change_bins, clusters_dict, output_indices,
                    candidate, iteration, cursor, filled_bins, error, probe,
                    csvvars >>

\* line 519
Stop ==
    /\ pc = "written"
    /\ pc' = "done"
    /\ UNCHANGED << argv, stdin, options, counts, counts_sort, groups,
                    initial_bins, change_bins, clusters_dict, output_indices,
                    candidate, iteration, cursor, filled_bins, written,
                    calls, error, probe,
                    csvvars >>

-----------------------------------------------------------------------------
(* The runs of main().  The defaults of set_defaults (lines 327-354) are   *)
(* kept in kind, with the bin ranges scaled down to the values of the      *)
(* tables below.                                                           *)

Optional(S) == { << >> } \cup { << x >> : x \in S }

Defaults ==
    [method |-> "filter", input_filename_design |-> << "design.tsv" >>,
     spike_type |-> "row", output_method |-> "seperate",
     id_column |-> << >>, min_spike |-> << >>, max_spike |-> MaxSpike,
     iterations |-> 1, difference |-> "logfold",
     min_cbin |-> 0, max_cbin |-> 2, width_cbin |-> 2,
     min_ibin |-> 0, max_ibin |-> 2, width_ibin |-> 2,
     cluster_max_distance |-> 1, cluster_min_size |-> 2,
     min_sbin |-> 1, max_sbin |-> 1, width_sbin |-> 1,
     shuffle_suffix |-> << >>, keep_suffix |-> << >>]

\* (min, max, width) of the initial and of the change bins
InitialBinChoices == { << 0, 2, 2 >>, << 0, 4, 2 >> }
ChangeBinChoices == { << 0, 2, 2 >>, << -1, 1, 1 >> }

\* options that every spike run reads
SpikeOptions ==
    { [Defaults EXCEPT
         !.method = "spike", !.output_method = om, !.id_column = id,
         !.min_spike = mn, !.max_spike = mx, !.iterations = it,
         !.difference = df,
         !.min_ibin = ib[1], !.max_ibin = ib[2], !.width_ibin = ib[3],
         !.min_cbin = cb[1], !.max_cbin = cb[2], !.width_cbin = cb[3]] :
        om \in {"append", "seperate"},
        id \in {<< >>, << "id" >>},
        mn \in Optional(0..MaxSpike),
        mx \in 0..MaxSpike,
        it \in 1..MaxIterations,
        df \in {"relative", "logfold"},
        ib \in InitialBinChoices,
        cb \in ChangeBinChoices }

\* options that only cluster mode reads
ClusterOptions ==
    { [o EXCEPT !.spike_type = "cluster", !.cluster_min_size = cs,
                !.max_sbin = sb] :
        o \in SpikeOptions, cs \in 1..2, sb \in 1..3 }

\* bin widths that are zero or negative (the last choice is a sound one)
DegenerateBinChoices ==
    { << 0, 2, 0 >>, << 0, 2, -1 >>, << 2, 0, -1 >>, << 0, 2, 2 >> }

DegenerateBinOptions ==
    { [Defaults EXCEPT
         !.method = "spike", !.spike_type = st, !.max_spike = 1,
         !.min_ibin = ib[1], !.max_ibin = ib[2], !.width_ibin = ib[3],
         !.min_cbin = cb[1], !.max_cbin = cb[2], !.width_cbin = cb[3]] :
        st \in {"row", "cluster"},
        ib \in DegenerateBinChoices,
        cb \in DegenerateBinChoices }

\* runs with a suffix for the columns to keep
SuffixOptions ==
    { [Defaults EXCEPT
         !.method = m, !.spike_type = st,
         !.shuffle_suffix = << ".shuffle" >>, !.keep_suffix = << ".keep" >>] :
        m \in {"filter", "normalize", "spike"},
        st \in {"row", "cluster"} }

OtherOptions ==
    { [Defaults EXCEPT !.method = m, !.input_filename_design = d] :
        m \in {"filter", "normalize", "spike"},
        d \in Optional({"design.tsv"}) }

\* one contig, adjacent positions, sorted
TableA ==
    << Row(1, 1, 0, << 1, 1 >>, << 2, 2 >>),
       Row(2, 1, 1, << 1, 1 >>, << 2, 2 >>),
       Row(3, 1, 2, << 2, 2 >>, << 1, 1 >>) >>

\* two contigs, not sorted
TableB ==
    << Row(1, 2, 0, << 2, 2 >>, << 4, 4 >>),
       Row(2, 1, 1, << 1, 1 >>, << 1, 1 >>),
       Row(3, 1, 0, << 1, 3 >>, << 4, 4 >>) >>

\* every mean of group 1 is zero
TableC ==
    << Row(1, 1, 0, << 0, 0 >>, << 1, 1 >>),
       Row(2, 1, 1, << 0, 0 >>, << 2, 2 >>) >>

\* no two rows adjacent
TableD ==
    << Row(1, 1, 0, << 1, 1 >>, << 1, 1 >>),
       Row(2, 2, 0, << 4, 4 >>, << 1, 1 >>) >>

Tables == { TableA, TableB, TableC, TableD }

InitMain(o, t, p) ==
    /\ argv = o
    /\ options = o
    /\ stdin = [rows |-> t, at |-> IF p = "start" THEN 0 ELSE Len(t)]
    /\ counts = << >>
    /\ counts_sort = << >>
    /\ groups = << >>
    /\ initial_bins = << >>
    /\ change_bins = << >>
    /\ clusters_dict = << >>
    /\ output_indices = EmptyMap
    /\ candidate = NoCandidate
    /\ iteration = 0
    /\ cursor = 0
    /\ filled_bins = EmptyMap
    /\ written = << >>
    /\ calls = << >>
    /\ error = ""
    /\ probe = << >>
    /\ pc = p

\* no call of getConvertedTable is under way
NoCall == [table |-> << >>, columns |-> << >>, skip_errors |-> FALSE]

InitAt(o, t, p) ==
    /\ InitMain(o, t, p)
    /\ call = NoCall
    /\ table = << >>
    /\ new_table = << >>

Init ==
    \E o \in SpikeOptions \cup ClusterOptions \cup DegenerateBinOptions
                \cup SuffixOptions \cup OtherOptions :
      \E t \in Tables : InitAt(o, t, "start")

Next ==
    \/ Load
    \/ Filter
    \/ Normalize
    \/ CheckSpikeType
    \/ CheckIdColumn
    \/ SetMinSpike
    \/ MapGroups
    \/ BuildBins
    \/ FindClustersStep
    \/ StartShuffleRows
    \/ ShuffleRowStep
    \/ ShuffleClusterStep
    \/ Threshold
    \/ Output
    \/ Stop

Spec == Init /\ [][Next]_vars

-----------------------------------------------------------------------------
(* SpecTable: cluster-mode runs up to findClusters over every table of up  *)
(* to MaxRows rows on two contigs, in any order of the rows.               *)

PlainRows ==
    { Row(0, c, p, << 1, 1 >>, << 2, 2 >>) : c \in 1..2, p \in 0..MaxPos }

\* the index labels of an input table are 1, 2, ... in input order
Labelled(t) == [k \in DOMAIN t |-> [t[k] EXCEPT !.id = k]]

AllTables ==
    UNION { { Labelled(t) : t \in [1..n -> PlainRows] } : n \in 1..MaxRows }

TableOptions ==
    { [Defaults EXCEPT !.method = "spike", !.spike_type = "cluster",
                       !.cluster_max_distance = d, !.cluster_min_size = m] :
        d \in 0..MaxDistance, m \in 1..MaxClusterSize }

InitTable ==
    \E o \in TableOptions : \E t \in AllTables : InitAt(o, t, "start")

NextTable ==
    \/ Load
    \/ CheckSpikeType
    \/ CheckIdColumn
    \/ SetMinSpike
    \/ MapGroups
    \/ BuildBins
    \/ FindClustersStep

SpecTable == InitTable /\ [][NextTable]_vars

-----------------------------------------------------------------------------
(* SpecBins: the bins main() builds from (min, max, width) and the         *)
(* classification of values against them (spec.md 4.1).                    *)

ProbeValues ==
    { Rat(n, 2) : n \in (-2)..(2 * (MaxEdge + MaxWidth) + 2) }
        \cup { Log2(n, d) : n \in 1..3, d \in 1..3 }

BinOptions ==
    { [Defaults EXCEPT !.method = "spike",
                       !.min_ibin = lo, !.max_ibin = hi, !.width_ibin = w] :
        lo \in 0..MaxEdge, hi \in 0..MaxEdge, w \in 1..MaxWidth }

\* BinSpace.classify applied to a value against the initial bins
ClassifyProbe ==
    /\ pc = "binned"
    /\ \E v \in ProbeValues :
         probe' = << [value |-> v, bin |-> Classify(v, initial_bins)] >>
    /\ UNCHANGED << argv, stdin, options, counts, counts_sort, groups,
                    initial_bins, change_bins, clusters_dict, output_indices,
                    candidate, iteration, cursor, filled_bins, written,
                    calls, error, pc,
                    csvvars >>

InitBins == \E o \in BinOptions : InitAt(o, TableA, "mapped")

NextBins ==
    \/ BuildBins
    \/ ClassifyProbe

SpecBins == InitBins /\ [][NextBins]_vars

-----------------------------------------------------------------------------
(* CSV.getConvertedTable (src/CGAT/CSV.py lines 295-316) applied to small  *)
(* tables.  A cell is a string as read from a file, or a float.            *)

Str(v) == [t |-> "str", v |-> v]

Flt(v) == [t |-> "float", v |-> v]

\* the strings float() accepts, with the float each gives (as printed)
ParsedFloat(v) ==
    CASE v = "1"    -> "1.0"
      [] v = " 2 "  -> "2.0"
      [] OTHER      -> ""

\* float(x) raises ValueError
FloatRaises(x) == x.t = "str" /\ ParsedFloat(x.v) = ""

\* float(x): a float is returned as it is, a string is parsed
Float(x) == IF x.t = "float" THEN x ELSE Flt(ParsedFloat(x.v))

\* faulty variant: the row is converted only once every listed column is
\* known to convert, so a row that fails is left as it was
ConvertRowAtomic(row, columns, i) ==
    IF \E j \in i..Len(columns) : FloatRaises(row[columns[j]])
    THEN [row |-> row, failed |-> TRUE]
    ELSE [row |-> [c \in DOMAIN row |->
                     IF \E j \in i..Len(columns) : columns[j] = c
                     THEN Float(row[c]) ELSE row[c]],
          failed |-> FALSE]

\* lines 303-311: the listed columns of one row, from the i-th on, are
\* converted in place, one after the other, up to the first that fails
RECURSIVE ConvertRow(_, _, _)
ConvertRow(row, columns, i) ==
    IF i > Len(columns) THEN [row |-> row, failed |-> FALSE]
    ELSE IF FloatRaises(row[columns[i]]) THEN [row |-> row, failed |-> TRUE]
    ELSE ConvertRow([row EXCEPT ![columns[i]] = Float(row[columns[i]])],
                    columns, i + 1)

\* lines 301-316: the rows from the k-th on; a row that fails is skipped
\* (skip_errors) or ends the call with ValueError
RECURSIVE ConvertRows(_, _, _, _, _)
ConvertRows(rows, columns, skip_errors, k, result) ==
    IF k > Len(rows)
    THEN [table |-> rows, new_table |-> << result >>, raised |-> FALSE]
    ELSE LET r == ConvertRow(rows[k], columns, 1)
             after == [rows EXCEPT ![k] = r.row]
         IN  IF ~r.failed
             THEN ConvertRows(after, columns, skip_errors, k + 1,
                              Append(result, r.row))
             ELSE IF skip_errors
             THEN ConvertRows(after, columns, skip_errors, k + 1, result)
             ELSE [table |-> after, new_table |-> << >>, raised |-> TRUE]

\* getConvertedTable(table, columns, function=float, skip_errors=False)
GetConvertedTable ==
    /\ pc = "convert"
    /\ LET r == ConvertRows(call.table, call.columns, call.skip_errors, 1,
                            << >>)
       IN  /\ table' = r.table
           /\ new_table' = r.new_table
           /\ IF r.raised
              THEN Raise("ValueError")
              ELSE /\ pc' = "converted"
                   /\ error' = error
    /\ UNCHANGED << argv, stdin, options, counts, counts_sort, groups,
                    initial_bins, change_bins, clusters_dict, output_indices,
                    candidate, iteration, cursor, filled_bins, written,
                    calls, probe, call >>

Cells == { Str("1"), Str(" 2 "), Str("na"), Flt("2.0") }

\* rows of two columns
CsvRows == { << a, b >> : a \in Cells, b \in Cells }

CsvTables == UNION { [1..n -> CsvRows] : n \in 0..MaxCsvRows }

ColumnLists == { << >>, << 1 >>, << 2 >>, << 1, 2 >>, << 2, 1 >> }

InitCSV ==
    \E t \in CsvTables, cs \in ColumnLists, se \in BOOLEAN :
      /\ InitMain(Defaults, << >>, "convert")
      /\ call = [table |-> t, columns |-> cs, skip_errors |-> se]
      /\ table = t
      /\ new_table = << >>

NextCSV == GetConvertedTable

SpecCSV == InitCSV /\ [][NextCSV]_vars

-----------------------------------------------------------------------------
(* The spike runs that pass every check of the options, with the steps of  *)
(* main() taken one after the other until it returns or raises: main() is  *)
(* one sequential, synchronous program, so a step that can be taken is     *)
(* taken (weak fairness of the next step).                                 *)

LiveRowOptions ==
    { [Defaults EXCEPT
         !.method = "spike", !.id_column = << "id" >>,
         !.min_spike = mn, !.max_spike = mx, !.iterations = it,
         !.difference = df,
         !.min_cbin = cb[1], !.max_cbin = cb[2], !.width_cbin = cb[3]] :
        mn \in Optional(0..1),
        mx \in 0..MaxSpike,
        it \in 1..MaxIterations,
        df \in {"relative", "logfold"},
        cb \in ChangeBinChoices }

LiveClusterOptions ==
    { [o EXCEPT !.spike_type = "cluster", !.max_sbin = sb] :
        o \in LiveRowOptions, sb \in 1..2 }

InitLive ==
    \E o \in LiveRowOptions \cup LiveClusterOptions :
      \E t \in { TableA, TableC, TableD } : InitAt(o, t, "start")

NextLive ==
    \/ Load
    \/ CheckSpikeType
    \/ CheckIdColumn
    \/ SetMinSpike
    \/ MapGroups
    \/ BuildBins
    \/ FindClustersStep
    \/ StartShuffleRows
    \/ ShuffleRowStep
    \/ ShuffleClusterStep
    \/ Threshold
    \/ Output
    \/ Stop

SpecLive == InitLive /\ [][NextLive]_vars /\ WF_vars(NextLive)

-----------------------------------------------------------------------------
(* Properties of the spike run, checked under Spec.                        *)

Called(f) == f \in SeqRange(calls)

SpikeRun == argv.method = "spike" /\ argv.input_filename_design # << >>

Accepted(acc, key) == IF key \in DOMAIN acc THEN acc[key] ELSE << >>

\* C1: bin capacity.  In every state of a spike run no BinKey of the
\* accumulator, of the thresholded bins or of the written output holds more
\* than max_spike accepted candidates; and a shuffling step that draws a
\* candidate inserts it under its key exactly when that key holds fewer than
\* max_spike candidates, and otherwise leaves the accumulator as it was and
\* raises nothing.
C1_BinCapacity ==
    /\ [](/\ \A k \in DOMAIN output_indices :
                Len(output_indices[k]) <= argv.max_spike
          /\ \A k \in DOMAIN filled_bins :
                Len(filled_bins[k]) <= argv.max_spike
          /\ \A i \in DOMAIN written : \A k \in DOMAIN written[i].bins :
                Len(written[i].bins[k]) <= argv.max_spike)
    /\ [][(pc = "shuffling" /\ candidate'.ids # << >>) =>
            LET key == candidate'.key
                old == Accepted(output_indices, key)
            IN  IF Len(old) < argv.max_spike
                THEN /\ key \in DOMAIN output_indices'
                     /\ output_indices'[key] = old \o << candidate'.ids >>
                     /\ \A k \in DOMAIN output_indices :
                          k # key => output_indices'[k] = output_indices[k]
                ELSE /\ output_indices' = output_indices
                     /\ error' = ""
                     /\ pc' # "error"]_vars

\* C1 witness: a candidate was drawn for a full bin and discarded
C1_Witness ==
    /\ pc = "shuffling"
    /\ candidate.ids # << >>
    /\ ~candidate.accepted
    /\ argv.max_spike > 0
    /\ Len(Accepted(output_indices, candidate.key)) = argv.max_spike

\* the minimum population as configured: min_spike, or max_spike when
\* min_spike was not given
ConfiguredMinSpike ==
    IF argv.min_spike = << >> THEN argv.max_spike ELSE argv.min_spike[1]

\* C2: threshold.  Once thresholdBins has run, the retained BinKeys are
\* exactly those whose accepted count is at least the configured min_spike
\* (max_spike when none was configured).
C2_ThresholdConfigured ==
    Called("thresholdBins") =>
        DOMAIN filled_bins =
            { k \in DOMAIN output_indices :
                Len(output_indices[k]) >= ConfiguredMinSpike }

\* C3: no bins qualified.  Once thresholdBins has run: if no BinKey holds
\* the minimum population the run has ended in the "No bins" error and the
\* writer was not called and wrote nothing; if some BinKey holds it the run
\* is not in error.
C3_NoBinsQualified ==
    Called("thresholdBins") =>
        IF \A k \in DOMAIN output_indices :
              Len(output_indices[k]) < options.min_spike[1]
        THEN /\ pc = "error"
             /\ error = "AssertionError: No bins contained enough spike-ins"
             /\ ~Called("outputSpikes")
             /\ written = << >>
        ELSE /\ pc # "error"
             /\ error = ""

\* C3 witness: candidates were accepted, yet no bin reached the minimum
C3_Witness ==
    /\ pc = "error"
    /\ error = "AssertionError: No bins contained enough spike-ins"
    /\ DOMAIN output_indices # {}
    /\ written = << >>

\* C4: append without an id column, row mode.  Such a run never gets past
\* the id-column check: it ends there in the "id column" error, and groups
\* are never mapped, bins never built, no candidate drawn or accepted.
C4_AppendRejectedRow ==
    (/\ SpikeRun
     /\ argv.spike_type = "row"
     /\ argv.output_method = "append"
     /\ argv.id_column = << >>) =>
        /\ pc \in {"start", "loaded", "checked", "error"}
        /\ pc = "error" =>
             error = "AssertionError: id column must be specified"
        /\ ~Called("mapGroups")
        /\ ~Called("arange")
        /\ ~Called("shuffleRows")
        /\ groups = << >>
        /\ initial_bins = << >> /\ change_bins = << >>
        /\ candidate = NoCandidate
        /\ DOMAIN output_indices = {}

\* C4 witness: the run was rejected
C4_Witness ==
    /\ argv.spike_type = "row"
    /\ argv.output_method = "append"
    /\ argv.id_column = << >>
    /\ pc = "error"
    /\ error = "AssertionError: id column must be specified"

\* C5: append without an id column, cluster mode.  Such a run is rejected
\* like a row-mode run: it never finds clusters, shuffles or writes.
C5_AppendRejectedCluster ==
    (/\ SpikeRun
     /\ argv.spike_type = "cluster"
     /\ argv.output_method = "append"
     /\ argv.id_column = << >>) =>
        /\ ~Called("findClusters")
        /\ ~Called("shuffleCluster")
        /\ ~Called("outputSpikes")
        /\ written = << >>

\* C6: subcluster size.  A cluster-mode run with max_sbin > cluster_min_size
\* ends in the "max size of subcluster" error before the table is sorted or
\* a cluster searched for; and in a run that reaches the cluster shuffler
\* every drawn subcluster size is <= cluster_min_size and <= the length of
\* every emitted cluster.
C6_SubclusterSize ==
    /\ (/\ SpikeRun
        /\ argv.spike_type = "cluster"
        /\ argv.max_sbin > argv.cluster_min_size) =>
           /\ pc \in {"start", "loaded", "error"}
           /\ pc = "error" =>
                error = "AssertionError: max size of subcluster"
           /\ ~Called("sort")
           /\ ~Called("findClusters")
           /\ counts_sort = << >>
           /\ clusters_dict = << >>
    /\ Called("shuffleCluster") =>
           /\ candidate.size <= argv.cluster_min_size
           /\ \A c \in DOMAIN clusters_dict :
                candidate.size <= Len(clusters_dict[c])

\* C6 witness: the run was aborted for its subcluster size
C6_Witness ==
    /\ argv.max_sbin > argv.cluster_min_size
    /\ pc = "error"
    /\ error = "AssertionError: max size of subcluster"
    /\ counts_sort = << >>

\* C7: no clusters.  When findClusters has returned no cluster the run has
\* ended in the "no clusters" error, and the cluster shuffler, the
\* thresholder and the writer were not called.
C7_NoClusters ==
    (Called("findClusters") /\ Len(clusters_dict) = 0) =>
        /\ pc = "error"
        /\ error = "Exception: no clusters were found"
        /\ ~Called("shuffleCluster")
        /\ ~Called("thresholdBins")
        /\ ~Called("outputSpikes")
        /\ candidate = NoCandidate
        /\ DOMAIN output_indices = {}
        /\ written = << >>

\* C7 witness: a sorted table without a cluster of the minimum size
C7_Witness ==
    /\ Called("findClusters")
    /\ Len(clusters_dict) = 0
    /\ Len(counts_sort) > 0
    /\ pc = "error"

\* C11: bin width.  A spike run with a bin width <= 0 for the initial or
\* the change bins is rejected when the bins are built: it never holds
\* bins, never calls a shuffler and never draws a candidate.
C11_WidthRejected ==
    (SpikeRun /\ (argv.width_ibin <= 0 \/ argv.width_cbin <= 0)) =>
        /\ pc \in {"start", "loaded", "checked", "idset", "minset", "mapped",
                   "error"}
        /\ ~Called("shuffleRows")
        /\ ~Called("shuffleCluster")
        /\ candidate = NoCandidate

\* C12: design file.  A run of method normalize without a design file
\* reads the table without a design, raises nothing and ends with the
\* normalized table written; a run of method filter or spike without a
\* design file ends in the "requires a design file" error.
C12_DesignOnlyWhereUsed ==
    (argv.input_filename_design = << >> /\ pc # "start") =>
        IF argv.method = "normalize"
        THEN /\ pc # "error"
             /\ Called("read_table")
             /\ pc = "done" => /\ written # << >>
                               /\ written[1].what = "normalized"
        ELSE /\ pc = "error"
             /\ error = "ValueError: method requires a design file"

\* the reads of the input stream made so far
Reads ==
    Cardinality({ i \in DOMAIN calls :
                    calls[i] \in {"read_csv", "read_table",
                                  "loadTagDataPandas"} })

\* C15: one load.  The input stream is never read twice, a method runs
\* only after exactly one read, and a spike run with a keep suffix passes
\* the load with the complete input table.
C15_StreamReadOnce ==
    /\ Reads <= 1
    /\ pc \notin {"start", "error"} => Reads = 1
    /\ (SpikeRun /\ Given(argv.keep_suffix) /\ pc # "start") =>
           /\ pc # "error"
           /\ counts = stdin.rows

-----------------------------------------------------------------------------
(* Termination of the spike run, checked under SpecLive.                   *)

\* (min, max, width) gives exactly one bin
OneBin(min, max, width) ==
    /\ width > 0
    /\ min < max
    /\ min + width >= max

SingleBins ==
    /\ OneBin(argv.min_ibin, argv.max_ibin, argv.width_ibin)
    /\ OneBin(argv.min_cbin, argv.max_cbin, argv.width_cbin)

\* one subcluster size only: row mode, or min_sbin = max_sbin
SingleSize == argv.spike_type = "row" \/ argv.min_sbin = argv.max_sbin

\* the rows of the input that give a classifiable candidate
ClassifiableRows ==
    { i \in DOMAIN counts :
        argv.difference = "logfold" =>
            SumSeq(counts[i].g1) > 0 /\ SumSeq(counts[i].g2) > 0 }

\* fewer classifiable candidates than min_spike over all iterations: in
\* row mode every pass draws each row once; a subcluster is classifiable
\* only if one of its rows is
TooFewClassifiable ==
    IF argv.spike_type = "row"
    THEN argv.iterations * Cardinality(ClassifiableRows) < ConfiguredMinSpike
    ELSE ClassifiableRows = {} /\ ConfiguredMinSpike > 0

NoBinsError ==
    /\ pc = "error"
    /\ error = "AssertionError: No bins contained enough spike-ins"

\* the shuffler has returned
Shuffled ==
    \/ pc \in {"shuffled", "thresholded", "written", "done"}
    \/ pc = "error" /\ Called("thresholdBins")

-----------------------------------------------------------------------------
(* Properties of getConvertedTable, checked under SpecCSV.                 *)

\* every listed column of the row converts
RowConverts(row) ==
    \A i \in DOMAIN call.columns : ~FloatRaises(row[call.columns[i]])

\* the place in the column list of the first column that does not convert
FirstBad(row) ==
    CHOOSE i \in DOMAIN call.columns :
      /\ FloatRaises(row[call.columns[i]])
      /\ \A j \in 1..(i - 1) : ~FloatRaises(row[call.columns[j]])

\* the row with the first n listed columns converted
ConvertedUpTo(row, n) ==
    [c \in DOMAIN row |->
       IF \E j \in 1..n : call.columns[j] = c THEN Float(row[c]) ELSE row[c]]

Converted(row) == ConvertedUpTo(row, Len(call.columns))

\* the row as a failed conversion leaves it
PartlyConverted(row) == ConvertedUpTo(row, FirstBad(row) - 1)

\* the rows of the input that convert, in input order, converted
ConvertedRows ==
    LET kept == SelectSeq(call.table, RowConverts)
    IN  [k \in DOMAIN kept |-> Converted(kept[k])]

CallEnded == pc \in {"converted", "error"}

\* the first row of the input that does not convert
FirstBadRow ==
    CHOOSE k \in DOMAIN call.table :
      /\ ~RowConverts(call.table[k])
      /\ \A j \in 1..(k - 1) : RowConverts(call.table[j])

-----------------------------------------------------------------------------
(* Properties of the sorted table and its clusters, checked under          *)
(* SpecTable.                                                              *)

PosOf(t, i) == CHOOSE k \in DOMAIN t : t[k].id = i

\* rows k and k+1 of the table belong to one run of adjacent rows
Linked(t, k, d) ==
    /\ t[k].contig = t[k + 1].contig
    /\ t[k + 1].position - t[k].position <= d

\* the rows of the maximal run of adjacent rows that holds row k
RunOf(t, k, d) ==
    { j \in DOMAIN t :
        \A x \in (IF j < k THEN j ELSE k)..((IF j < k THEN k ELSE j) - 1) :
            Linked(t, x, d) }

InSomeCluster(cl, i) == \E c \in DOMAIN cl : i \in SeqRange(cl[c])

\* C8: clusters.  The clusters found in a table sorted by (contig,
\* position) are pairwise disjoint and without repeated rows; each has at
\* least cluster_min_size rows of one contig, in table order, consecutive
\* members no more than cluster_max_distance apart; and no row of a run of
\* adjacent rows shorter than cluster_min_size, the last run of the table
\* included, is in a cluster.
C8_Clusters ==
    Called("findClusters") =>
        LET t == counts_sort
            cl == clusters_dict
            d == argv.cluster_max_distance
            m == argv.cluster_min_size
        IN  /\ \A a, b \in DOMAIN cl :
                 a # b => SeqRange(cl[a]) \cap SeqRange(cl[b]) = {}
            /\ \A c \in DOMAIN cl :
                 /\ Len(cl[c]) >= m
                 /\ Cardinality(SeqRange(cl[c])) = Len(cl[c])
                 /\ SeqRange(cl[c]) \subseteq SeqRange(Index(t))
                 /\ \A j \in 1..(Len(cl[c]) - 1) :
                      LET r == RowById(t, cl[c][j])
                          q == RowById(t, cl[c][j + 1])
                      IN  /\ PosOf(t, cl[c][j]) < PosOf(t, cl[c][j + 1])
                          /\ r.contig = q.contig
                          /\ q.position - r.position <= d
                          /\ q.position - r.position >= 0
            /\ \A k \in DOMAIN t :
                 Cardinality(RunOf(t, k, d)) < m => ~InSomeCluster(cl, t[k].id)

\* C8 witness: a cluster of several rows was emitted and the last run of
\* the table, being too short, was not
C8_Witness ==
    /\ Called("findClusters")
    /\ IsSorted(counts_sort)
    /\ \E c \in DOMAIN clusters_dict : Len(clusters_dict[c]) >= 2
    /\ argv.cluster_min_size >= 2
    /\ ~InSomeCluster(clusters_dict, counts_sort[Len(counts_sort)].id)

\* C9: row identity.  After the sort every row of the sorted table is
\* addressed by the index label it had in the input table: the label names
\* the same data in both.
C9_RowIdentity ==
    Called("sort") =>
        \A k \in DOMAIN counts_sort :
            Data(counts_sort[k]) = Data(RowById(counts, counts_sort[k].id))

-----------------------------------------------------------------------------
(* Properties of the classification, checked under SpecBins.               *)

ProbeMade == probe # << >>

\* the claims of C10 about a classified value, for the bins as built
Saturating(v, idx, lo, hi, w, bins) ==
    LET n == Len(bins)
    IN  /\ idx \in 0..(n - 1)
        /\ LT(v, lo) => idx = 0
        /\ GE(v, bins[n]) => idx = n - 1
        /\ GE(v, hi) => idx = n - 1
        /\ (GE(v, lo) /\ LT(v, bins[n])) =>
               /\ GE(v, lo + idx * w)
               /\ LT(v, lo + (idx + 1) * w)

\* C10 as stated: for every (min, max, width) with width > 0 a classified
\* value has a valid bin index, that of the first bin below the minimum, of
\* the last bin at or above the last low edge or the maximum, and of the
\* bin [low, low+width) holding it otherwise.
C10_ClassifyAnyRange ==
    (ProbeMade /\ argv.width_ibin > 0) =>
        /\ probe[1].bin \in 0..(Len(initial_bins) - 1)
        /\ Len(initial_bins) > 0 =>
             Saturating(probe[1].value, probe[1].bin, argv.min_ibin,
                        argv.max_ibin, argv.width_ibin, initial_bins)

\* C10 as amended: the same for every (min, max, width) with width > 0 and
\* min < max.
C10_Classify ==
    (ProbeMade /\ argv.width_ibin > 0 /\ argv.min_ibin < argv.max_ibin) =>
        Saturating(probe[1].value, probe[1].bin, argv.min_ibin,
                   argv.max_ibin, argv.width_ibin, initial_bins)

\* C10 witness: a value at or above the maximum went to the last of
\* several bins
C10_Witness ==
    /\ ProbeMade
    /\ argv.min_ibin < argv.max_ibin
    /\ Len(initial_bins) >= 2
    /\ GE(probe[1].value, argv.max_ibin)
    /\ probe[1].bin = Len(initial_bins) - 1

====
